---- MODULE Spec2Model ----
(***************************************************************************)
(* Model of mqtt_to_database.py, the MQTT -> PostgreSQL bridge: the global *)
(* data_buffer, reading_counter and reconnect_count, the paho callbacks    *)
(* on_connect / on_disconnect / on_message, flush_buffer_to_db,            *)
(* save_statistics with its parse_stat, the main loop's                    *)
(* check_buffer_timeout and main's KeyboardInterrupt handler.              *)
(*                                                                         *)
(* Python's None is the empty tuple and a present value v is <<v>>.        *)
(* Floats are held in tenths (float("40.5") is 405), ints as they are.     *)
(* Time is in seconds.                                                     *)
(***************************************************************************)
EXTENDS Integers, Sequences, FiniteSets, TLC

VARIABLES
    data_buffer,      \* the global dict data_buffer
    reading_counter,  \* the global reading_counter
    reconnect_count,  \* the global reconnect_count
    now,              \* time.time()
    session,          \* the paho client: "connecting", "connected", "stopped"
    sensor_calls,     \* calls of save_sensor_reading made by the last handler
    event_calls,      \* calls of save_event made by the last handler
    subscribe_calls,  \* calls of client.subscribe made by the last handler
    stats_calls,      \* calls of save_statistics made by the last handler
    last_op,          \* the handler that ran last
    net_pc,           \* MQTT network thread: where it is inside a callback
    net_wake,         \* MQTT network thread: when its time.sleep() ends
    net_args,         \* MQTT network thread: arguments of its pending save call
    main_pc,          \* main thread: where it is inside check_buffer_timeout
    main_args         \* main thread: arguments of its pending save call

vars == <<data_buffer, reading_counter, reconnect_count, now, session,
          sensor_calls, event_calls, subscribe_calls, stats_calls, last_op,
          net_pc, net_wake, net_args, main_pc, main_args>>

threads == <<net_pc, net_wake, net_args, main_pc, main_args>>

\* ------------------------------------------------------------------ bounds

MaxTime == 80
MaxReadings == 2
MaxFailures == 6

\* --------------------------------------------------------------- constants

BUFFER_TIMEOUT == 60
max_reconnects == 5
LOOP_SLEEP == 10
CONNECT_RETRY_SLEEP == 5
DISCONNECT_SLEEP == 10

None == <<>>
Some(v) == <<v>>

FEEDS ==
    [temperature  |-> "sensor_temp",
     humidity     |-> "sensor_hum",
     ldr_percent  |-> "sensor_ldr_pct",
     ldr_raw      |-> "sensor_ldr_raw",
     estado       |-> "sensor_estado",
     comfort      |-> "sensor_comfort",
     stats        |-> "sensor_stats",
     system_event |-> "system_event"]

\* (variant: the statistics feed is left out)
FeedValuesWithoutStats ==
    <<FEEDS.temperature, FEEDS.humidity, FEEDS.ldr_percent, FEEDS.ldr_raw,
      FEEDS.estado, FEEDS.comfort, FEEDS.system_event>>

\* FEEDS.values(), in the dict's insertion order
FeedValues ==
    <<FEEDS.temperature, FEEDS.humidity, FEEDS.ldr_percent, FEEDS.ldr_raw,
      FEEDS.estado, FEEDS.comfort, FEEDS.stats, FEEDS.system_event>>

EmptyBuffer ==
    [temperature |-> None,
     humidity    |-> None,
     ldr_percent |-> None,
     ldr_raw     |-> None,
     estado      |-> None,
     comfort     |-> None,
     last_update |-> None]

\* ------------------------------------------------------------ payload text

\* the statistics lines among the payloads
StatsLines ==
    {"T:25.3 H:65.2(45.0-85.0)",
     "T:2.5(1.5-3.5) H:6.5(4.5-8.5)",
     "T:2.5(1.5) H:6.5(4.5-8.5)",
     "T:2.5(1.5-3.5 H:6.5(4.5-8.5)",
     "T:x(1.5-3.5) H:6.5(4.5-8.5)",
     "L:5.5(1.0-9.5)",
     "H:6.5(4.5-8.5) L:5.5(1.0-y)"}

\* The characters of every payload and of every piece a payload splits into.
Chars ==
    [s \in {"20", "N/A", "abc", "40", "80.5", "512", "CLARO", "OSCURO", "OK",
            "BOOT:ok:1", "hola", "BOOT", "ok:1"} \cup StatsLines |->
        CASE s = "20"        -> <<"2", "0">>
          [] s = "N/A"       -> <<"N", "/", "A">>
          [] s = "abc"       -> <<"a", "b", "c">>
          [] s = "40"        -> <<"4", "0">>
          [] s = "80.5"      -> <<"8", "0", ".", "5">>
          [] s = "512"       -> <<"5", "1", "2">>
          [] s = "CLARO"     -> <<"C", "L", "A", "R", "O">>
          [] s = "OSCURO"    -> <<"O", "S", "C", "U", "R", "O">>
          [] s = "OK"        -> <<"O", "K">>
          [] s = "BOOT:ok:1" -> <<"B", "O", "O", "T", ":", "o", "k", ":", "1">>
          [] s = "hola"      -> <<"h", "o", "l", "a">>
          [] s = "BOOT"      -> <<"B", "O", "O", "T">>
          [] s = "ok:1"      -> <<"o", "k", ":", "1">>
          [] s = "T:25.3 H:65.2(45.0-85.0)" ->
               <<"T", ":", "2", "5", ".", "3", " ", "H", ":", "6", "5",
                 ".", "2", "(", "4", "5", ".", "0", "-", "8", "5", ".",
                 "0", ")">>
          [] s = "T:2.5(1.5-3.5) H:6.5(4.5-8.5)" ->
               <<"T", ":", "2", ".", "5", "(", "1", ".", "5", "-", "3",
                 ".", "5", ")", " ", "H", ":", "6", ".", "5", "(", "4",
                 ".", "5", "-", "8", ".", "5", ")">>
          [] s = "T:2.5(1.5) H:6.5(4.5-8.5)" ->
               <<"T", ":", "2", ".", "5", "(", "1", ".", "5", ")", " ",
                 "H", ":", "6", ".", "5", "(", "4", ".", "5", "-", "8",
                 ".", "5", ")">>
          [] s = "T:2.5(1.5-3.5 H:6.5(4.5-8.5)" ->
               <<"T", ":", "2", ".", "5", "(", "1", ".", "5", "-", "3",
                 ".", "5", " ", "H", ":", "6", ".", "5", "(", "4", ".",
                 "5", "-", "8", ".", "5", ")">>
          [] s = "T:x(1.5-3.5) H:6.5(4.5-8.5)" ->
               <<"T", ":", "x", "(", "1", ".", "5", "-", "3", ".", "5",
                 ")", " ", "H", ":", "6", ".", "5", "(", "4", ".", "5",
                 "-", "8", ".", "5", ")">>
          [] s = "L:5.5(1.0-9.5)" ->
               <<"L", ":", "5", ".", "5", "(", "1", ".", "0", "-", "9",
                 ".", "5", ")">>
          [] OTHER ->  \* "H:6.5(4.5-8.5) L:5.5(1.0-y)"
               <<"H", ":", "6", ".", "5", "(", "4", ".", "5", "-", "8",
                 ".", "5", ")", " ", "L", ":", "5", ".", "5", "(", "1",
                 ".", "0", "-", "y", ")">>]

Text(cs) == CHOOSE s \in DOMAIN Chars : Chars[s] = cs

Digits == {"0", "1", "2", "3", "4", "5", "6", "7", "8", "9"}

DigitValue(c) ==
    CASE c = "0" -> 0 [] c = "1" -> 1 [] c = "2" -> 2 [] c = "3" -> 3
      [] c = "4" -> 4 [] c = "5" -> 5 [] c = "6" -> 6 [] c = "7" -> 7
      [] c = "8" -> 8 [] OTHER -> 9

AllDigits(cs) == Len(cs) > 0 /\ \A i \in 1..Len(cs) : cs[i] \in Digits

RECURSIVE NatValue(_)
NatValue(cs) ==
    IF cs = <<>> THEN 0
    ELSE 10 * NatValue(SubSeq(cs, 1, Len(cs) - 1)) + DigitValue(cs[Len(cs)])

\* the position of the first c in cs, 0 when there is none
FirstIndex(cs, c) ==
    IF \E i \in 1..Len(cs) : cs[i] = c
    THEN CHOOSE i \in 1..Len(cs) : cs[i] = c /\ \A j \in 1..(i - 1) : cs[j] # c
    ELSE 0

\* (variant: int() takes any text)
IsIntTextLenient(s) == TRUE

\* int(value): decimal digits only
IsIntText(s) == AllDigits(Chars[s])
IntValue(s) == NatValue(Chars[s])

\* (variant: float() takes "N/A" as well)
IsFloatTextOrNA(s) ==
    \/ s = "N/A"
    \/ LET cs == Chars[s]
           dot == FirstIndex(cs, ".")
       IN  IF dot = 0 THEN AllDigits(cs)
           ELSE /\ AllDigits(SubSeq(cs, 1, dot - 1))
                /\ dot = Len(cs) - 1
                /\ cs[Len(cs)] \in Digits

\* float(value): digits, or digits "." one digit; the value in tenths
IsFloatText(s) ==
    LET cs == Chars[s]
        dot == FirstIndex(cs, ".")
    IN  IF dot = 0 THEN AllDigits(cs)
        ELSE /\ AllDigits(SubSeq(cs, 1, dot - 1))
             /\ dot = Len(cs) - 1
             /\ cs[Len(cs)] \in Digits

FloatValue(s) ==
    LET cs == Chars[s]
        dot == FirstIndex(cs, ".")
    IN  IF dot = 0 THEN 10 * NatValue(cs)
        ELSE 10 * NatValue(SubSeq(cs, 1, dot - 1)) + DigitValue(cs[Len(cs)])

\* dict.get(key, default)
DictGet(d, key, default) == IF key \in DOMAIN d THEN d[key] ELSE default

\* ---------------------------------------------------------- storage sink

\* The arguments of one save_sensor_reading call.
ReadingArgs(temperature, humidity, ldr_percent, ldr_raw, estado, comfort_level, reading_number) ==
    [temperature    |-> temperature,
     humidity       |-> humidity,
     ldr_percent    |-> ldr_percent,
     ldr_raw        |-> ldr_raw,
     estado         |-> estado,
     comfort_level  |-> comfort_level,
     reading_number |-> reading_number]

\* sensor_readings declares ldr_percent, ldr_raw and estado NOT NULL
NotNullColumnsSet(args) ==
    /\ args.ldr_percent # None
    /\ args.ldr_raw # None
    /\ args.estado # None

\* save_sensor_reading: True when the row was inserted, False when there is no
\* connection (db_up is false) or the INSERT raised
save_sensor_reading(args, db_up) == db_up /\ NotNullColumnsSet(args)

SensorCall(args, db_up) ==
    [args |-> args, success |-> save_sensor_reading(args, db_up)]

\* ------------------------------------------------------------ stats parser

\* float() of a piece of a line: digits, or digits "." one digit
IsFloatChars(cs) ==
    LET dot == FirstIndex(cs, ".")
    IN  IF dot = 0 THEN AllDigits(cs)
        ELSE /\ AllDigits(SubSeq(cs, 1, dot - 1))
             /\ dot = Len(cs) - 1
             /\ cs[Len(cs)] \in Digits

\* its value, in tenths
FloatChars(cs) ==
    LET dot == FirstIndex(cs, ".")
    IN  IF dot = 0 THEN 10 * NatValue(cs)
        ELSE 10 * NatValue(SubSeq(cs, 1, dot - 1)) + DigitValue(cs[Len(cs)])

\* str.split(): the runs of characters between blanks
RECURSIVE SplitBlank(_)
SplitBlank(cs) ==
    IF cs = <<>> THEN <<>>
    ELSE IF cs[1] = " " THEN SplitBlank(Tail(cs))
    ELSE LET blank == FirstIndex(cs, " ")
         IN  IF blank = 0 THEN <<cs>>
             ELSE <<SubSeq(cs, 1, blank - 1)>>
                  \o SplitBlank(SubSeq(cs, blank + 1, Len(cs)))

\* str.split(sep): the pieces between the occurrences of sep
RECURSIVE SplitAt(_, _)
SplitAt(cs, sep) ==
    LET at == FirstIndex(cs, sep)
    IN  IF at = 0 THEN <<cs>>
        ELSE <<SubSeq(cs, 1, at - 1)>> \o SplitAt(SubSeq(cs, at + 1, Len(cs)), sep)

\* str.rstrip(c)
RECURSIVE RStrip(_, _)
RStrip(cs, c) ==
    IF cs # <<>> /\ cs[Len(cs)] = c THEN RStrip(SubSeq(cs, 1, Len(cs) - 1), c)
    ELSE cs

\* the for loop of save_statistics: part[2:] of the last part that starts with
\* the prefix and ":", None when no part does
StatData(parts, prefix) ==
    LET hits == {i \in 1..Len(parts) :
                    /\ Len(parts[i]) >= 2
                    /\ parts[i][1] = prefix
                    /\ parts[i][2] = ":"}
    IN  IF hits = {} THEN None
        ELSE LET last == CHOOSE i \in hits : \A j \in hits : j <= i
             IN  Some(SubSeq(parts[last], 3, Len(parts[last])))

NoTriple == <<None, None, None>>

\* what a call of parse_stat does: it raises, or returns a triple
Parsed(raised, triple) == [raised |-> raised, triple |-> triple]

\* (variant: a piece that is no number gives an absent triple)
parse_stat_lenient(data_str) ==
    IF data_str = None \/ data_str[1] = <<>> \/ FirstIndex(data_str[1], "(") = 0
    THEN Parsed(FALSE, NoTriple)
    ELSE LET halves == SplitAt(data_str[1], "(")
         IN  IF Len(halves) # 2 THEN Parsed(TRUE, NoTriple)
             ELSE LET range == SplitAt(RStrip(halves[2], ")"), "-")
                  IN  IF Len(range) # 2 THEN Parsed(TRUE, NoTriple)
                      ELSE IF ~ ( /\ IsFloatChars(halves[1])
                                  /\ IsFloatChars(range[1])
                                  /\ IsFloatChars(range[2]) )
                      THEN Parsed(FALSE, NoTriple)
                      ELSE Parsed(FALSE, <<Some(FloatChars(halves[1])),
                                           Some(FloatChars(range[1])),
                                           Some(FloatChars(range[2]))>>)

\* parse_stat: the two unpacking assignments raise ValueError unless split
\* gave exactly two pieces, and float() raises on a piece that is no number
parse_stat(data_str) ==
    IF data_str = None \/ data_str[1] = <<>> \/ FirstIndex(data_str[1], "(") = 0
    THEN Parsed(FALSE, NoTriple)
    ELSE LET halves == SplitAt(data_str[1], "(")
         IN  IF Len(halves) # 2 THEN Parsed(TRUE, NoTriple)
             ELSE LET range == SplitAt(RStrip(halves[2], ")"), "-")
                  IN  IF Len(range) # 2 THEN Parsed(TRUE, NoTriple)
                      ELSE IF ~ ( /\ IsFloatChars(halves[1])
                                  /\ IsFloatChars(range[1])
                                  /\ IsFloatChars(range[2]) )
                      THEN Parsed(TRUE, NoTriple)
                      ELSE Parsed(FALSE, <<Some(FloatChars(halves[1])),
                                           Some(FloatChars(range[1])),
                                           Some(FloatChars(range[2]))>>)

\* the parsing part of save_statistics: stats_data.split(), the for loop, and
\* the three parse_stat calls
ParseLine(stats_data) ==
    LET parts == SplitBlank(Chars[stats_data])
    IN  [temp |-> parse_stat(StatData(parts, "T")),
         hum  |-> parse_stat(StatData(parts, "H")),
         ldr  |-> parse_stat(StatData(parts, "L"))]

\* every statistics line with what ParseLine makes of it
ParsedLines == {<<stats_data, ParseLine(stats_data)>> : stats_data \in StatsLines}

\* one call of save_statistics: the line it was given, the row it inserted
\* (None when it inserted none) and what it returned
StatsCall(stats_data, row, success) ==
    [stats_data |-> stats_data, row |-> row, success |-> success]

\* save_statistics: without a connection it returns False at once; an
\* exception raised by parse_stat is caught before the INSERT; otherwise one
\* row with the three triples is inserted (every column may be NULL)
save_statistics(stats_data, db_up) ==
    LET parsed == (CHOOSE line \in ParsedLines : line[1] = stats_data)[2]
    IN  IF ~ db_up THEN StatsCall(stats_data, None, FALSE)
        ELSE IF parsed.temp.raised \/ parsed.hum.raised \/ parsed.ldr.raised
        THEN StatsCall(stats_data, None, FALSE)
        ELSE StatsCall(stats_data,
                       Some([temperature |-> parsed.temp.triple,
                             humidity    |-> parsed.hum.triple,
                             ldr         |-> parsed.ldr.triple]),
                       TRUE)

\* ------------------------------------------------------ reading aggregator

\* (variant: ldr_raw is not checked)
FlushReadyMissingRaw(buf) ==
    /\ buf.ldr_percent # None
    /\ buf.estado # None

\* the condition of flush_buffer_to_db
FlushReady(buf) ==
    /\ buf.ldr_percent # None
    /\ buf.ldr_raw # None
    /\ buf.estado # None

\* (variant: the call without the comfort level)
FlushArgsNoComfort(buf, counter) ==
    ReadingArgs(buf.temperature, buf.humidity, buf.ldr_percent, buf.ldr_raw,
                buf.estado, None, counter)

\* the arguments flush_buffer_to_db passes to save_sensor_reading
FlushArgs(buf, counter) ==
    ReadingArgs(buf.temperature, buf.humidity, buf.ldr_percent, buf.ldr_raw,
                buf.estado, DictGet(buf, "comfort", None), counter)

\* (variant: the buffer is cleared whatever save_sensor_reading returned)
flush_buffer_to_db_always_clears(buf, counter, db_up) ==
    IF FlushReady(buf)
    THEN [buffer |-> EmptyBuffer,
          calls  |-> <<SensorCall(FlushArgs(buf, counter), db_up)>>]
    ELSE [buffer |-> buf, calls |-> <<>>]

\* (variant: a saved buffer keeps its comfort level)
flush_buffer_to_db_keeps_comfort(buf, counter, db_up) ==
    IF FlushReady(buf)
    THEN LET call == SensorCall(FlushArgs(buf, counter), db_up)
         IN  [buffer |-> IF call.success
                         THEN [EmptyBuffer EXCEPT !.comfort = buf.comfort]
                         ELSE buf,
              calls  |-> <<call>>]
    ELSE [buffer |-> buf, calls |-> <<>>]

\* (variant: whatever is there is saved once ldr_percent is)
flush_buffer_to_db_partial(buf, counter, db_up) ==
    IF buf.ldr_percent # None
    THEN LET call == SensorCall(FlushArgs(buf, counter), db_up)
         IN  [buffer |-> IF call.success THEN EmptyBuffer ELSE buf,
              calls  |-> <<call>>]
    ELSE [buffer |-> buf, calls |-> <<>>]

\* flush_buffer_to_db, run to its end: the buffer it leaves and its sink calls
flush_buffer_to_db(buf, counter, db_up) ==
    IF FlushReady(buf)
    THEN LET call == SensorCall(FlushArgs(buf, counter), db_up)
         IN  [buffer |-> IF call.success THEN EmptyBuffer ELSE buf,
              calls  |-> <<call>>]
    ELSE [buffer |-> buf, calls |-> <<>>]

\* (variant: >= in place of >)
TimedOutAtLimit(buf, t) ==
    /\ buf.last_update # None
    /\ t - buf.last_update[1] >= BUFFER_TIMEOUT

\* the two outer conditions of check_buffer_timeout
TimedOut(buf, t) ==
    /\ buf.last_update # None
    /\ t - buf.last_update[1] > BUFFER_TIMEOUT

\* the arguments check_buffer_timeout passes to save_sensor_reading
TimeoutArgs(buf, counter) ==
    ReadingArgs(buf.temperature, buf.humidity, buf.ldr_percent,
                DictGet(buf, "ldr_raw", Some(0)),
                DictGet(buf, "estado", Some("UNKNOWN")),
                DictGet(buf, "comfort", None), counter)

\* (variant: a stale buffer is saved whatever it holds)
TimeoutWorthSavingAlways(buf) == TRUE

\* the inner condition of check_buffer_timeout
TimeoutWorthSaving(buf) == buf.ldr_percent # None

\* (variant: the reset leaves last_update as it was)
check_buffer_timeout_keeps_stamp(buf, counter, t, db_up) ==
    IF TimedOut(buf, t) /\ TimeoutWorthSaving(buf)
    THEN [buffer |-> [EmptyBuffer EXCEPT !.last_update = buf.last_update],
          calls  |-> <<SensorCall(TimeoutArgs(buf, counter), db_up)>>]
    ELSE [buffer |-> buf, calls |-> <<>>]

\* check_buffer_timeout at time t, run to its end
check_buffer_timeout(buf, counter, t, db_up) ==
    IF TimedOut(buf, t) /\ TimeoutWorthSaving(buf)
    THEN [buffer |-> EmptyBuffer,
          calls  |-> <<SensorCall(TimeoutArgs(buf, counter), db_up)>>]
    ELSE [buffer |-> buf, calls |-> <<>>]

\* ------------------------------------------------------------ field router

\* what one run of a handler leaves: the buffer, the counter and its sink calls
Outcome(buf, counter, sensor, stats, events) ==
    [buffer |-> buf, counter |-> counter, sensor |-> sensor, stats |-> stats,
     events |-> events]

EventCall(event_type, description) ==
    [event_type |-> event_type, description |-> description]

\* the system_event branch of on_message: value.split(':', 1)
SystemEvent(value) ==
    LET cs == Chars[value]
        colon == FirstIndex(cs, ":")
    IN  IF colon # 0
        THEN EventCall(Text(SubSeq(cs, 1, colon - 1)),
                       Text(SubSeq(cs, colon + 1, Len(cs))))
        ELSE EventCall("SYSTEM", value)

\* (variant: the counter moves only when the flush saves a reading)
EstadoMessageCountsSaved(buf, counter, t, value, db_up) ==
    LET written == [buf EXCEPT !.estado = Some(value), !.last_update = Some(t)]
        flushed == flush_buffer_to_db(written, counter + 1, db_up)
    IN  Outcome(flushed.buffer,
                IF flushed.calls # <<>> THEN counter + 1 ELSE counter,
                flushed.calls, <<>>, <<>>)

\* the estado branch of on_message at time t
EstadoMessage(buf, counter, t, value, db_up) ==
    LET written == [buf EXCEPT !.estado = Some(value), !.last_update = Some(t)]
        flushed == flush_buffer_to_db(written, counter + 1, db_up)
    IN  Outcome(flushed.buffer, counter + 1, flushed.calls, <<>>, <<>>)

\* the body of on_message at time t; an exception raised by float() or int()
\* is caught by the handler's except clause before anything was assigned
MessageOutcome(buf, counter, t, feed_name, value, db_up) ==
    LET dropped == Outcome(buf, counter, <<>>, <<>>, <<>>)
    IN  CASE feed_name = FEEDS.temperature ->
                IF value # "N/A" /\ ~IsFloatText(value) THEN dropped
                ELSE Outcome([buf EXCEPT !.temperature =
                                 IF value # "N/A" THEN Some(FloatValue(value))
                                 ELSE None],
                             counter, <<>>, <<>>, <<>>)
          [] feed_name = FEEDS.humidity ->
                IF value # "N/A" /\ ~IsFloatText(value) THEN dropped
                ELSE Outcome([buf EXCEPT !.humidity =
                                 IF value # "N/A" THEN Some(FloatValue(value))
                                 ELSE None],
                             counter, <<>>, <<>>, <<>>)
          [] feed_name = FEEDS.ldr_percent ->
                IF ~IsFloatText(value) THEN dropped
                ELSE Outcome([buf EXCEPT !.ldr_percent = Some(FloatValue(value))],
                             counter, <<>>, <<>>, <<>>)
          [] feed_name = FEEDS.ldr_raw ->
                IF ~IsIntText(value) THEN dropped
                ELSE Outcome([buf EXCEPT !.ldr_raw = Some(IntValue(value))],
                             counter, <<>>, <<>>, <<>>)
          [] feed_name = FEEDS.comfort ->
                Outcome([buf EXCEPT !.comfort = Some(value)],
                        counter, <<>>, <<>>, <<>>)
          [] feed_name = FEEDS.estado ->
                EstadoMessage(buf, counter, t, value, db_up)
          [] feed_name = FEEDS.stats ->
                Outcome(buf, counter, <<>>, <<save_statistics(value, db_up)>>,
                        <<>>)
          [] feed_name = FEEDS.system_event ->
                Outcome(buf, counter, <<>>, <<>>, <<SystemEvent(value)>>)
          [] OTHER -> dropped

\* ------------------------------------------------------------------ inputs

FeedNames ==
    {FEEDS.temperature, FEEDS.humidity, FEEDS.ldr_percent, FEEDS.ldr_raw,
     FEEDS.estado, FEEDS.comfort, FEEDS.stats, FEEDS.system_event, "other_feed"}

Payloads(feed_name) ==
    CASE feed_name = FEEDS.temperature  -> {"20", "N/A", "abc"}
      [] feed_name = FEEDS.humidity     -> {"40", "N/A", "abc"}
      [] feed_name = FEEDS.ldr_percent  -> {"40", "80.5", "N/A", "abc"}
      [] feed_name = FEEDS.ldr_raw      -> {"512", "80.5", "N/A"}
      [] feed_name = FEEDS.estado       -> {"CLARO"}
      [] feed_name = FEEDS.comfort      -> {"OK"}
      [] feed_name = FEEDS.stats        -> StatsLines
      [] feed_name = FEEDS.system_event -> {"BOOT:ok:1", "hola"}
      [] OTHER                          -> {"20"}

\* whether the database answers, for the handlers that reach it
DbAnswers(feed_name) == IF feed_name = FEEDS.estado THEN BOOLEAN ELSE {TRUE}

\* CONNACK return codes (0 is success) and unexpected-disconnect codes
ConnectCodes == {0, 4, 5}
DropCodes == {1, 7}

Op(op, arg) == [op |-> op, arg |-> arg]

\* ------------------------------------------------------- transport session

\* the topic on_connect subscribes to for one feed (the user name is fixed)
Topic(feed_name) == feed_name

\* (variant: <= in place of < in the comparison with max_reconnects)
ConnectOutcomeOneMore(count, rc) ==
    IF rc = 0
    THEN [count      |-> 0,
          subscribed |-> [i \in 1..Len(FeedValues) |-> Topic(FeedValues[i])],
          events     |-> <<EventCall("MQTT_BRIDGE", "Conectado a Adafruit IO")>>,
          slept      |-> 0]
    ELSE IF count + 1 <= max_reconnects
    THEN [count      |-> count + 1,
          subscribed |-> <<>>,
          events     |-> <<>>,
          slept      |-> CONNECT_RETRY_SLEEP]
    ELSE [count      |-> count + 1,
          subscribed |-> <<>>,
          events     |-> <<EventCall("MQTT_ERROR", "Fallo despues de 5 intentos")>>,
          slept      |-> 0]

\* (variant: a successful connection leaves the count as it is)
ConnectOutcomeKeepsCount(count, rc) ==
    IF rc = 0
    THEN [count      |-> count,
          subscribed |-> [i \in 1..Len(FeedValues) |-> Topic(FeedValues[i])],
          events     |-> <<EventCall("MQTT_BRIDGE", "Conectado a Adafruit IO")>>,
          slept      |-> 0]
    ELSE IF count + 1 < max_reconnects
    THEN [count      |-> count + 1,
          subscribed |-> <<>>,
          events     |-> <<>>,
          slept      |-> CONNECT_RETRY_SLEEP]
    ELSE [count      |-> count + 1,
          subscribed |-> <<>>,
          events     |-> <<EventCall("MQTT_ERROR", "Fallo despues de 5 intentos")>>,
          slept      |-> 0]

\* on_connect: the new reconnect_count, the subscriptions and events it makes,
\* and the seconds it sleeps in the callback
ConnectOutcome(count, rc) ==
    IF rc = 0
    THEN [count      |-> 0,
          subscribed |-> [i \in 1..Len(FeedValues) |-> Topic(FeedValues[i])],
          events     |-> <<EventCall("MQTT_BRIDGE", "Conectado a Adafruit IO")>>,
          slept      |-> 0]
    ELSE IF count + 1 < max_reconnects
    THEN [count      |-> count + 1,
          subscribed |-> <<>>,
          events     |-> <<>>,
          slept      |-> CONNECT_RETRY_SLEEP]
    ELSE [count      |-> count + 1,
          subscribed |-> <<>>,
          events     |-> <<EventCall("MQTT_ERROR", "Fallo despues de 5 intentos")>>,
          slept      |-> 0]

\* on_disconnect: the events it makes and the seconds it sleeps in the callback
DisconnectOutcome(rc) ==
    IF rc # 0
    THEN [events |-> <<EventCall("MQTT_BRIDGE", "Desconexion inesperada")>>,
          slept  |-> DISCONNECT_SLEEP]
    ELSE [events |-> <<>>, slept |-> 0]

\* ------------------------------------------ handlers, run one at a time

Idle == net_pc = "idle" /\ main_pc = "idle"

\* time.sleep(seconds) inside a callback: the network thread is held until then
Sleep(seconds) ==
    IF seconds > 0
    THEN net_pc' = "sleeping" /\ net_wake' = Some(now + seconds)
    ELSE net_pc' = "idle" /\ net_wake' = None

\* the callback's time.sleep() has ended and the callback returns
sleep_returns ==
    /\ net_pc = "sleeping"
    /\ now >= net_wake[1]
    /\ net_pc' = "idle"
    /\ net_wake' = None
    /\ UNCHANGED <<data_buffer, reading_counter, reconnect_count, now, session,
                   sensor_calls, event_calls, subscribe_calls, stats_calls,
                   last_op, net_args, main_pc, main_args>>

Init ==
    /\ data_buffer = EmptyBuffer
    /\ reading_counter = 0
    /\ reconnect_count = 0
    /\ now = 0
    /\ session = "connecting"
    /\ sensor_calls = <<>>
    /\ event_calls = <<>>
    /\ subscribe_calls = <<>>
    /\ stats_calls = <<>>
    /\ last_op = Op("main", "loop_start")
    /\ net_pc = "idle"
    /\ net_wake = None
    /\ net_args = None
    /\ main_pc = "idle"
    /\ main_args = None

on_connect(rc) ==
    /\ net_pc = "idle"
    /\ session = "connecting"
    /\ rc # 0 => reconnect_count < MaxFailures
    /\ LET out == ConnectOutcome(reconnect_count, rc)
       IN  /\ reconnect_count' = out.count
           /\ subscribe_calls' = out.subscribed
           /\ event_calls' = out.events
           /\ Sleep(out.slept)
    /\ session' = IF rc = 0 THEN "connected" ELSE "connecting"
    /\ sensor_calls' = <<>>
    /\ stats_calls' = <<>>
    /\ last_op' = Op("on_connect", IF rc = 0 THEN "accepted" ELSE "refused")
    /\ UNCHANGED <<data_buffer, reading_counter, now, net_args, main_pc, main_args>>

on_disconnect(rc) ==
    /\ net_pc = "idle"
    /\ session = "connected"
    /\ LET out == DisconnectOutcome(rc)
       IN  /\ event_calls' = out.events
           /\ Sleep(out.slept)
    /\ session' = "connecting"
    /\ sensor_calls' = <<>>
    /\ stats_calls' = <<>>
    /\ subscribe_calls' = <<>>
    /\ last_op' = Op("on_disconnect", "dropped")
    /\ UNCHANGED <<data_buffer, reading_counter, reconnect_count, now,
                   net_args, main_pc, main_args>>

on_message(feed_name, value) ==
    /\ Idle
    /\ session = "connected"
    /\ feed_name = FEEDS.estado => reading_counter < MaxReadings
    /\ \E db_up \in DbAnswers(feed_name) :
         \E out \in {MessageOutcome(data_buffer, reading_counter, now,
                                    feed_name, value, db_up)} :
             /\ data_buffer' = out.buffer
             /\ reading_counter' = out.counter
             /\ sensor_calls' = out.sensor
             /\ stats_calls' = out.stats
             /\ event_calls' = out.events
    /\ subscribe_calls' = <<>>
    /\ last_op' = Op("on_message", feed_name)
    /\ UNCHANGED <<reconnect_count, now, session, threads>>

\* one turn of the main loop: time.sleep(10), then check_buffer_timeout()
main_loop ==
    /\ main_pc = "idle"
    /\ net_pc \in {"idle", "sleeping"}
    /\ session # "stopped"
    /\ now + LOOP_SLEEP <= MaxTime
    /\ now' = now + LOOP_SLEEP
    /\ \E db_up \in BOOLEAN :
         \E out \in {check_buffer_timeout(data_buffer, reading_counter,
                                          now + LOOP_SLEEP, db_up)} :
             /\ data_buffer' = out.buffer
             /\ sensor_calls' = out.calls
    /\ event_calls' = <<>>
    /\ stats_calls' = <<>>
    /\ subscribe_calls' = <<>>
    /\ last_op' = Op("main", "check_buffer_timeout")
    /\ UNCHANGED <<reading_counter, reconnect_count, session, threads>>

\* the KeyboardInterrupt handler of main
keyboard_interrupt ==
    /\ main_pc = "idle"
    /\ net_pc \in {"idle", "sleeping"}
    /\ session # "stopped"
    /\ \E db_up \in BOOLEAN :
         LET out == IF data_buffer.ldr_percent # None
                    THEN flush_buffer_to_db(data_buffer, reading_counter, db_up)
                    ELSE [buffer |-> data_buffer, calls |-> <<>>]
         IN  /\ data_buffer' = out.buffer
             /\ sensor_calls' = out.calls
    /\ event_calls' = <<EventCall("MQTT_BRIDGE", "Bridge V2 detenido")>>
    /\ stats_calls' = <<>>
    /\ subscribe_calls' = <<>>
    /\ session' = "stopped"
    /\ last_op' = Op("main", "KeyboardInterrupt")
    /\ UNCHANGED <<reading_counter, reconnect_count, now, threads>>

Next ==
    \/ \E rc \in ConnectCodes : on_connect(rc)
    \/ \E rc \in DropCodes : on_disconnect(rc)
    \/ \E feed_name \in FeedNames :
         \E value \in Payloads(feed_name) : on_message(feed_name, value)
    \/ sleep_returns
    \/ main_loop
    \/ keyboard_interrupt

Spec == Init /\ [][Next]_vars

\* --------------------------------- the two threads, statement by statement
\* on_message runs on the paho network thread (client.loop_start()) and
\* check_buffer_timeout on the main thread; nothing in the program orders the
\* statements of one against the statements of the other.

BufferFeeds ==
    {FEEDS.temperature, FEEDS.humidity, FEEDS.ldr_percent, FEEDS.ldr_raw,
     FEEDS.comfort}

Unobserved == UNCHANGED <<reconnect_count, session, event_calls,
                          subscribe_calls, stats_calls, last_op, net_wake>>

\* on_message for a feed that stores one buffer key: a single dict store
net_store(feed_name, value) ==
    /\ net_pc = "idle"
    /\ session = "connected"
    /\ feed_name \in BufferFeeds
    /\ data_buffer' = MessageOutcome(data_buffer, reading_counter, now,
                                     feed_name, value, TRUE).buffer
    /\ UNCHANGED <<reading_counter, now, sensor_calls, net_pc, net_args,
                   main_pc, main_args>>
    /\ Unobserved

\* on_message, estado branch: data_buffer['estado'] = value
net_estado(value) ==
    /\ net_pc = "idle"
    /\ session = "connected"
    /\ reading_counter < MaxReadings
    /\ data_buffer' = [data_buffer EXCEPT !.estado = Some(value)]
    /\ net_pc' = "estado_stored"
    /\ UNCHANGED <<reading_counter, now, sensor_calls, net_args, main_pc,
                   main_args>>
    /\ Unobserved

\* on_message, estado branch: data_buffer['last_update'] = time.time()
net_last_update ==
    /\ net_pc = "estado_stored"
    /\ data_buffer' = [data_buffer EXCEPT !.last_update = Some(now)]
    /\ net_pc' = "stamped"
    /\ UNCHANGED <<reading_counter, now, sensor_calls, net_args, main_pc,
                   main_args>>
    /\ Unobserved

\* on_message, estado branch: reading_counter += 1, then flush_buffer_to_db()
\* evaluates its condition
net_count_and_test ==
    /\ net_pc = "stamped"
    /\ reading_counter' = reading_counter + 1
    /\ net_pc' = IF FlushReady(data_buffer) THEN "ready" ELSE "idle"
    /\ UNCHANGED <<data_buffer, now, sensor_calls, net_args, main_pc, main_args>>
    /\ Unobserved

\* flush_buffer_to_db: the arguments are read and save_sensor_reading is called
net_save ==
    /\ net_pc = "ready"
    /\ \E db_up \in BOOLEAN :
         /\ net_args' = SensorCall(FlushArgs(data_buffer, reading_counter), db_up)
         /\ sensor_calls' = <<net_args'>>
    /\ net_pc' = "saved"
    /\ UNCHANGED <<data_buffer, reading_counter, now, main_pc, main_args>>
    /\ Unobserved

\* flush_buffer_to_db: save_sensor_reading has returned; if success: clear
net_clear ==
    /\ net_pc = "saved"
    /\ data_buffer' = IF net_args.success THEN EmptyBuffer ELSE data_buffer
    /\ net_pc' = "idle"
    /\ net_args' = None
    /\ UNCHANGED <<reading_counter, now, sensor_calls, main_pc, main_args>>
    /\ Unobserved

\* main loop: time.sleep(10), then check_buffer_timeout() evaluates
\* last_update is not None and elapsed > BUFFER_TIMEOUT. The ten seconds
\* pass between two callbacks: a callback that has begun is not held between
\* two statements, nor in the database, for that long.
main_sleep_and_test ==
    /\ main_pc = "idle"
    /\ net_pc = "idle"
    /\ session # "stopped"
    /\ now + LOOP_SLEEP <= MaxTime
    /\ now' = now + LOOP_SLEEP
    /\ main_pc' = IF TimedOut(data_buffer, now') THEN "stale" ELSE "idle"
    /\ UNCHANGED <<data_buffer, reading_counter, sensor_calls, net_pc, net_args,
                   main_args>>
    /\ Unobserved

\* check_buffer_timeout: if data_buffer['ldr_percent'] is not None
main_test_data ==
    /\ main_pc = "stale"
    /\ main_pc' = IF TimeoutWorthSaving(data_buffer) THEN "ready" ELSE "idle"
    /\ UNCHANGED <<data_buffer, reading_counter, now, sensor_calls, net_pc,
                   net_args, main_args>>
    /\ Unobserved

\* check_buffer_timeout: the arguments are read and save_sensor_reading is
\* called
main_save ==
    /\ main_pc = "ready"
    /\ \E db_up \in BOOLEAN :
         /\ main_args' = SensorCall(TimeoutArgs(data_buffer, reading_counter),
                                    db_up)
         /\ sensor_calls' = <<main_args'>>
    /\ main_pc' = "saved"
    /\ UNCHANGED <<data_buffer, reading_counter, now, net_pc, net_args>>
    /\ Unobserved

\* check_buffer_timeout: save_sensor_reading has returned; the buffer is
\* cleared
main_clear ==
    /\ main_pc = "saved"
    /\ data_buffer' = EmptyBuffer
    /\ main_pc' = "idle"
    /\ main_args' = None
    /\ UNCHANGED <<reading_counter, now, sensor_calls, net_pc, net_args>>
    /\ Unobserved

NextThreads ==
    \/ on_connect(0)
    \/ \E feed_name \in BufferFeeds :
         \E value \in Payloads(feed_name) : net_store(feed_name, value)
    \/ \E value \in Payloads(FEEDS.estado) : net_estado(value)
    \/ net_last_update
    \/ net_count_and_test
    \/ net_save
    \/ net_clear
    \/ main_sleep_and_test
    \/ main_test_data
    \/ main_save
    \/ main_clear

SpecThreads == Init /\ [][NextThreads]_vars

\* ------------------------------ shutdown against the network thread
\* main's KeyboardInterrupt handler runs on the main thread while the paho
\* network thread, started by client.loop_start(), keeps delivering messages
\* until client.loop_stop() has joined it.

\* KeyboardInterrupt is raised in the main loop's time.sleep(10); the handler
\* evaluates if data_buffer['ldr_percent'] is not None
main_interrupt ==
    /\ main_pc = "idle"
    /\ session # "stopped"
    /\ main_pc' = IF data_buffer.ldr_percent # None THEN "final_flush"
                  ELSE "flushed"
    /\ UNCHANGED <<data_buffer, reading_counter, now, sensor_calls, net_pc,
                   net_args, main_args>>
    /\ Unobserved

\* the handler's flush_buffer_to_db() evaluates its condition
main_final_test ==
    /\ main_pc = "final_flush"
    /\ main_pc' = IF FlushReady(data_buffer) THEN "final_ready" ELSE "flushed"
    /\ UNCHANGED <<data_buffer, reading_counter, now, sensor_calls, net_pc,
                   net_args, main_args>>
    /\ Unobserved

\* the handler's flush_buffer_to_db(): the arguments are read and
\* save_sensor_reading is called
main_final_save ==
    /\ main_pc = "final_ready"
    /\ \E db_up \in BOOLEAN :
         /\ main_args' = SensorCall(FlushArgs(data_buffer, reading_counter),
                                    db_up)
         /\ sensor_calls' = <<main_args'>>
    /\ main_pc' = "final_saved"
    /\ UNCHANGED <<data_buffer, reading_counter, now, net_pc, net_args>>
    /\ Unobserved

\* the handler's flush_buffer_to_db(): save_sensor_reading has returned;
\* if success: clear
main_final_clear ==
    /\ main_pc = "final_saved"
    /\ data_buffer' = IF main_args.success THEN EmptyBuffer ELSE data_buffer
    /\ main_pc' = "flushed"
    /\ main_args' = None
    /\ UNCHANGED <<reading_counter, now, sensor_calls, net_pc, net_args>>
    /\ Unobserved

\* print_dashboard(), save_event(...), then client.loop_stop(), which joins
\* the network thread once the callback it is in has returned, and
\* client.disconnect()
main_loop_stop ==
    /\ main_pc = "flushed"
    /\ net_pc = "idle"
    /\ event_calls' = <<EventCall("MQTT_BRIDGE", "Bridge V2 detenido")>>
    /\ session' = "stopped"
    /\ main_pc' = "done"
    /\ UNCHANGED <<data_buffer, reading_counter, reconnect_count, now,
                   sensor_calls, subscribe_calls, stats_calls, last_op,
                   net_pc, net_wake, net_args, main_args>>

NextShutdown ==
    \/ on_connect(0)
    \/ \E feed_name \in BufferFeeds :
         \E value \in Payloads(feed_name) : net_store(feed_name, value)
    \/ \E value \in Payloads(FEEDS.estado) : net_estado(value)
    \/ net_last_update
    \/ net_count_and_test
    \/ net_save
    \/ net_clear
    \/ main_interrupt
    \/ main_final_test
    \/ main_final_save
    \/ main_final_clear
    \/ main_loop_stop

SpecShutdown == Init /\ [][NextShutdown]_vars

\* ================================================================ properties

EstadoOp == Op("on_message", FEEDS.estado)
CheckOp == Op("main", "check_buffer_timeout")
RefusedOp == Op("on_connect", "refused")

\* the buffer key a feed writes
FieldOf(feed_name) ==
    CASE feed_name = FEEDS.temperature -> "temperature"
      [] feed_name = FEEDS.humidity    -> "humidity"
      [] feed_name = FEEDS.ldr_percent -> "ldr_percent"
      [] feed_name = FEEDS.ldr_raw     -> "ldr_raw"
      [] feed_name = FEEDS.comfort     -> "comfort"
      [] OTHER                         -> "none"

\* the value a well-formed payload leaves in the buffer
Stored(feed_name, value) ==
    CASE value = "20"   -> Some(200)
      [] value = "40"   -> Some(400)
      [] value = "80.5" -> Some(805)
      [] value = "512"  -> Some(512)
      [] value = "N/A"  -> None
      [] OTHER          -> Some(value)

WellFormed ==
    {<<FEEDS.temperature, "20">>, <<FEEDS.temperature, "N/A">>,
     <<FEEDS.humidity, "40">>, <<FEEDS.humidity, "N/A">>,
     <<FEEDS.ldr_percent, "40">>, <<FEEDS.ldr_percent, "80.5">>,
     <<FEEDS.ldr_raw, "512">>, <<FEEDS.comfort, "OK">>}

\* the reading that holds the buffer's six fields under sequence number n
BufferedReading(buf, n) ==
    [temperature    |-> buf.temperature,
     humidity       |-> buf.humidity,
     ldr_percent    |-> buf.ldr_percent,
     ldr_raw        |-> buf.ldr_raw,
     estado         |-> buf.estado,
     comfort_level  |-> buf.comfort,
     reading_number |-> n]

\* C1: a state message handled while ldr_percent and ldr_raw are set makes
\* exactly one save_sensor_reading call, with all required fields present and
\* every field at its buffered value; and the buffered value of a field is the
\* value of the last well-formed message for it (a field message writes its
\* own key and leaves the other keys alone).
C1_CompleteReadingEmitted ==
    [][/\ \A value \in Payloads(FEEDS.estado) :
            ( /\ last_op' = EstadoOp
              /\ on_message(FEEDS.estado, value)
              /\ data_buffer.ldr_percent # None
              /\ data_buffer.ldr_raw # None )
            => /\ Len(sensor_calls') = 1
               /\ sensor_calls'[1].args =
                    BufferedReading([data_buffer EXCEPT !.estado = Some(value)],
                                    reading_counter + 1)
               /\ sensor_calls'[1].args.ldr_percent # None
               /\ sensor_calls'[1].args.ldr_raw # None
               /\ sensor_calls'[1].args.estado # None
       /\ \A m \in WellFormed :
            (last_op' = Op("on_message", m[1]) /\ on_message(m[1], m[2]))
            => /\ data_buffer'[FieldOf(m[1])] = Stored(m[1], m[2])
               /\ \A k \in DOMAIN data_buffer \ {FieldOf(m[1])} :
                    data_buffer'[k] = data_buffer[k]
               /\ sensor_calls' = <<>>
      ]_vars

\* C1 witness: a state message has just saved a reading that carries the later
\* of two ldr_percent values, a temperature and a comfort level.
C1_Witness ==
    /\ last_op = EstadoOp
    /\ Len(sensor_calls) = 1
    /\ sensor_calls[1].success
    /\ sensor_calls[1].args.ldr_percent = Some(805)
    /\ sensor_calls[1].args.temperature = Some(200)
    /\ sensor_calls[1].args.comfort_level = Some("OK")
    /\ data_buffer = EmptyBuffer

\* C2: a state message handled while ldr_percent or ldr_raw is missing saves
\* nothing and keeps the buffer (now holding estado and last_update); a buffer
\* that already holds an estado is saved, with the values it holds, by the next
\* state message once both fields are there, or by a timeout check that finds
\* it stale with ldr_percent present.
C2_IncompleteStateHeld ==
    [][/\ \A value \in Payloads(FEEDS.estado) :
            ( /\ last_op' = EstadoOp
              /\ on_message(FEEDS.estado, value)
              /\ (data_buffer.ldr_percent = None \/ data_buffer.ldr_raw = None) )
            => /\ sensor_calls' = <<>>
               /\ data_buffer' = [data_buffer EXCEPT !.estado = Some(value),
                                                     !.last_update = Some(now)]
       /\ \A value \in Payloads(FEEDS.estado) :
            ( /\ last_op' = EstadoOp
              /\ on_message(FEEDS.estado, value)
              /\ data_buffer.estado # None
              /\ data_buffer.ldr_percent # None
              /\ data_buffer.ldr_raw # None )
            => /\ Len(sensor_calls') = 1
               /\ \A k \in {"temperature", "humidity", "ldr_percent", "ldr_raw"} :
                    sensor_calls'[1].args[k] = data_buffer[k]
               /\ sensor_calls'[1].args.comfort_level = data_buffer.comfort
       /\ ( /\ last_op' = CheckOp
            /\ main_loop
            /\ data_buffer.estado # None
            /\ data_buffer.last_update # None
            /\ data_buffer.ldr_percent # None
            /\ now' - data_buffer.last_update[1] > BUFFER_TIMEOUT )
          => /\ Len(sensor_calls') = 1
             /\ \A k \in {"temperature", "humidity", "ldr_percent"} :
                  sensor_calls'[1].args[k] = data_buffer[k]
             /\ sensor_calls'[1].args.comfort_level = data_buffer.comfort
             /\ sensor_calls'[1].args.reading_number = reading_counter
      ]_vars

\* C2 witness: a timeout check has just saved a buffer whose state message had
\* arrived while ldr_raw was missing.
C2_Witness ==
    /\ last_op = CheckOp
    /\ Len(sensor_calls) = 1
    /\ sensor_calls[1].args.estado # None
    /\ sensor_calls[1].args.ldr_raw = None
    /\ sensor_calls[1].args.ldr_percent # None

\* C3 (as claimed): the reading saved by a timeout flush has ldr_raw = 0 when
\* ldr_raw was missing and estado = "UNKNOWN" when estado was missing.
C3_TimeoutDefaults ==
    [][( /\ last_op' = CheckOp
            /\ main_loop
         /\ data_buffer.last_update # None
         /\ data_buffer.ldr_percent # None
         /\ now' - data_buffer.last_update[1] > BUFFER_TIMEOUT )
       => /\ Len(sensor_calls') = 1
          /\ sensor_calls'[1].args.ldr_raw =
               IF data_buffer.ldr_raw = None THEN Some(0) ELSE data_buffer.ldr_raw
          /\ sensor_calls'[1].args.estado =
               IF data_buffer.estado = None THEN Some("UNKNOWN")
               ELSE data_buffer.estado
      ]_vars

\* C4: a timeout check saves one reading and empties the buffer exactly when
\* last_update is more than BUFFER_TIMEOUT old and ldr_percent is present;
\* every other check, so every check of the emptied buffer, saves nothing and
\* leaves the buffer as it is.
C4_OneTimeoutFlush ==
    [][(last_op' = CheckOp /\ main_loop)
       => IF /\ data_buffer.last_update # None
             /\ data_buffer.ldr_percent # None
             /\ now' - data_buffer.last_update[1] > BUFFER_TIMEOUT
          THEN /\ Len(sensor_calls') = 1
               /\ data_buffer' = EmptyBuffer
          ELSE /\ sensor_calls' = <<>>
               /\ data_buffer' = data_buffer
      ]_vars

\* C4 witness: a timeout check has just saved a reading and emptied the buffer.
C4_Witness ==
    /\ last_op = CheckOp
    /\ Len(sensor_calls) = 1
    /\ data_buffer = EmptyBuffer
    /\ now < MaxTime

\* C5: a timeout check run while ldr_percent is absent saves nothing and
\* leaves every buffer field and the reading counter unchanged.
C5_NoDataNoFlush ==
    [][(last_op' = CheckOp /\ main_loop /\ data_buffer.ldr_percent = None)
       => /\ sensor_calls' = <<>>
          /\ data_buffer' = data_buffer
          /\ reading_counter' = reading_counter
      ]_vars

\* C5 witness: a timeout check has just run on a buffer that is stale (its
\* last_update is more than BUFFER_TIMEOUT old) and holds no ldr_percent.
C5_Witness ==
    /\ last_op = CheckOp
    /\ data_buffer.last_update # None
    /\ now - data_buffer.last_update[1] > BUFFER_TIMEOUT
    /\ data_buffer.ldr_percent = None
    /\ sensor_calls = <<>>

\* C6: reading_counter grows by exactly one in every step that handles a state
\* message, saved or not, and no other step changes it.
C6_CounterPerStateMessage ==
    [][IF /\ last_op' = EstadoOp
          /\ \E value \in Payloads(FEEDS.estado) : on_message(FEEDS.estado, value)
       THEN reading_counter' = reading_counter + 1
       ELSE reading_counter' = reading_counter
      ]_vars

\* C6 witness: the second state message has been handled and saved nothing.
C6_Witness ==
    /\ last_op = EstadoOp
    /\ reading_counter = 2
    /\ sensor_calls = <<>>

FatalEvents(events) ==
    {i \in 1..Len(events) : events[i].event_type = "MQTT_ERROR"}

C10_NoEventAfterMax ==
    [][\A rc \in ConnectCodes \ {0} :
          ( /\ reconnect_count >= max_reconnects
            /\ last_op' = RefusedOp
            /\ on_connect(rc) )
          => FatalEvents(event_calls') = {}
      ]_vars

PendingFields ==
    {"temperature", "humidity", "ldr_percent", "ldr_raw", "estado",
     "comfort_level"}

\* C8 (as claimed): one buffer's contents go to the sink once. The network
\* thread and the main thread are never both past a save_sensor_reading call
\* that inserted a row, and before their clearing of the buffer, with the same
\* six field values.
C8_OneFlushPerBuffer ==
    ~ ( /\ net_pc = "saved"
        /\ main_pc = "saved"
        /\ net_args.success
        /\ main_args.success
        /\ \A k \in PendingFields : net_args.args[k] = main_args.args[k] )

AcceptedOp == Op("on_connect", "accepted")
DroppedOp == Op("on_disconnect", "dropped")

\* the times a topic occurs among the subscriptions of one handler
Subscriptions(calls, topic) ==
    Cardinality({i \in 1..Len(calls) : calls[i] = topic})

\* C11: a successful connection, first or repeated, subscribes to the topic of
\* each of the eight configured feeds exactly once and to nothing else; and
\* handling a connect or a disconnect event leaves every field of the buffer
\* and the reading counter as they were.
C11_ResubscribeKeepsBuffer ==
    [][/\ (last_op' = AcceptedOp /\ on_connect(0))
          => /\ \A k \in DOMAIN FEEDS :
                  Subscriptions(subscribe_calls', Topic(FEEDS[k])) = 1
             /\ Len(subscribe_calls') = Cardinality(DOMAIN FEEDS)
       /\ ( /\ last_op'.op \in {"on_connect", "on_disconnect"}
            /\ \/ \E rc \in ConnectCodes : on_connect(rc)
               \/ \E rc \in DropCodes : on_disconnect(rc) )
          => /\ data_buffer' = data_buffer
             /\ reading_counter' = reading_counter
      ]_vars

\* C11 witness: the session has just been re-established, with all eight
\* subscriptions made, while the buffer holds fields received before the drop.
C11_Witness ==
    /\ last_op = AcceptedOp
    /\ session = "connected"
    /\ Len(subscribe_calls) = 8
    /\ data_buffer.ldr_percent # None
    /\ data_buffer.estado # None
    /\ reading_counter > 0

\* the main thread is inside the KeyboardInterrupt handler, at or after its
\* final flush and before client.loop_stop()
InShutdown ==
    main_pc \in {"final_flush", "final_ready", "final_saved", "flushed"}

\* C12 (as claimed): once the shutdown signal has been taken, no inbound
\* message is handled: no step made while the main thread is in its final
\* flush, or between the final flush and client.loop_stop(), is the network
\* thread storing the payload of a message.
C12_NoMessageDuringShutdown ==
    [][InShutdown
       => /\ \A feed_name \in BufferFeeds :
               \A value \in Payloads(feed_name) : ~ net_store(feed_name, value)
          /\ \A value \in Payloads(FEEDS.estado) : ~ net_estado(value)
      ]_vars

\* the payloads that are not numbers, per feed that wants a number ("N/A" is
\* taken for temperature and humidity)
Malformed ==
    {<<FEEDS.temperature, "abc">>, <<FEEDS.humidity, "abc">>,
     <<FEEDS.ldr_percent, "N/A">>, <<FEEDS.ldr_percent, "abc">>,
     <<FEEDS.ldr_raw, "N/A">>}

\* C13: a message whose payload is not a number, for ldr_percent or ldr_raw,
\* or for temperature or humidity when it is not "N/A", changes no buffer field
\* and not the reading counter, makes no call to the storage sink, and the
\* handler returns: the network thread is free again and the session is as
\* it was.
C13_MalformedDropped ==
    [][\A m \in Malformed :
          (last_op' = Op("on_message", m[1]) /\ on_message(m[1], m[2]))
          => /\ data_buffer' = data_buffer
             /\ reading_counter' = reading_counter
             /\ sensor_calls' = <<>>
             /\ stats_calls' = <<>>
             /\ event_calls' = <<>>
             /\ net_pc' = "idle"
             /\ session' = session
      ]_vars

\* C13 witness: an ldr_raw message has just been handled and ldr_raw is still
\* absent (a well-formed one would have set it), next to fields stored before.
C13_Witness ==
    /\ last_op = Op("on_message", FEEDS.ldr_raw)
    /\ data_buffer.ldr_raw = None
    /\ data_buffer.ldr_percent # None
    /\ data_buffer.estado # None
    /\ sensor_calls = <<>>
    /\ session = "connected"

StatsOp == Op("on_message", FEEDS.stats)

\* the statistics lines whose T token lacks "(" (the first), "-" (the second)
\* or ")" (the third), each followed by the well-formed token H:6.5(4.5-8.5)
\* or H:65.2(45.0-85.0)
MissingStructure ==
    {"T:25.3 H:65.2(45.0-85.0)",
     "T:2.5(1.5) H:6.5(4.5-8.5)",
     "T:2.5(1.5-3.5 H:6.5(4.5-8.5)"}

\* C14 (as claimed): a statistics line whose T token lacks a part of the
\* "(" / "-" / ")" structure is persisted in one call, with the temperature
\* triple absent and the humidity triple parsed from its own token.
C14_MalformedTokenAbsent ==
    [][\A line \in MissingStructure :
          (last_op' = StatsOp /\ on_message(FEEDS.stats, line))
          => /\ Len(stats_calls') = 1
             /\ stats_calls'[1].success
             /\ stats_calls'[1].row # None
             /\ stats_calls'[1].row[1].temperature = NoTriple
             /\ stats_calls'[1].row[1].humidity # NoTriple
      ]_vars

\* the statistics lines with a sub-field that is no number, in the first token
\* (the average of T) and in the last (the maximum of L)
NonNumericStats ==
    {"T:x(1.5-3.5) H:6.5(4.5-8.5)",
     "H:6.5(4.5-8.5) L:5.5(1.0-y)"}

\* C20: a statistics line in which a token of the T: H: L: form has a
\* sub-field that is no number inserts no row at all, the triples of its
\* well-formed tokens included, and leaves the buffer, the reading counter
\* and the readings sink alone.
C20_NonNumericFailsLine ==
    [][\A line \in NonNumericStats :
          (last_op' = StatsOp /\ on_message(FEEDS.stats, line))
          => /\ Len(stats_calls') = 1
             /\ stats_calls'[1].row = None
             /\ ~ stats_calls'[1].success
             /\ data_buffer' = data_buffer
             /\ reading_counter' = reading_counter
             /\ sensor_calls' = <<>>
      ]_vars

\* C20 witness: the line whose last token has a maximum that is no number has
\* just been handled, nothing was inserted, and the buffer holds its fields.
C20_Witness ==
    /\ last_op = StatsOp
    /\ Len(stats_calls) = 1
    /\ stats_calls[1].stats_data = "H:6.5(4.5-8.5) L:5.5(1.0-y)"
    /\ stats_calls[1].row = None
    /\ data_buffer.ldr_percent # None
    /\ data_buffer.temperature # None

InterruptOp == Op("main", "KeyboardInterrupt")

\* C15: the shutdown handler makes one save_sensor_reading call, carrying the
\* buffered fields, when ldr_percent, ldr_raw and estado are all present, and
\* none otherwise, leaving the buffer as it is; and once the program has
\* stopped no step saves a reading or changes the buffer, so what was pending
\* is gone with it.
C15_OneFinalFlush ==
    [][/\ (session' = "stopped" /\ keyboard_interrupt)
          => IF /\ data_buffer.ldr_percent # None
                /\ data_buffer.ldr_raw # None
                /\ data_buffer.estado # None
             THEN /\ Len(sensor_calls') = 1
                  /\ sensor_calls'[1].args =
                       BufferedReading(data_buffer, reading_counter)
             ELSE /\ sensor_calls' = <<>>
                  /\ data_buffer' = data_buffer
       /\ session = "stopped"
          => /\ sensor_calls' = sensor_calls
             /\ data_buffer' = data_buffer
             /\ session' = "stopped"
      ]_vars

\* C15 witness: the program has stopped with ldr_percent and a temperature
\* pending and no estado, and its shutdown handler saved nothing.
C15_Witness ==
    /\ last_op = InterruptOp
    /\ session = "stopped"
    /\ sensor_calls = <<>>
    /\ data_buffer.ldr_percent # None
    /\ data_buffer.temperature # None
    /\ data_buffer.estado = None

\* C16: when the save_sensor_reading call of a flush succeeds, be it the flush
\* of a state message, of a timeout check or of the shutdown handler, every
\* one of the seven buffer fields is absent afterwards.
C16_EmptyAfterSuccessfulFlush ==
    [][( /\ last_op' \in {EstadoOp, CheckOp, InterruptOp}
         /\ \/ \E value \in Payloads(FEEDS.estado) : on_message(FEEDS.estado, value)
            \/ main_loop
            \/ keyboard_interrupt
         /\ Len(sensor_calls') = 1
         /\ sensor_calls'[1].success )
       => \A k \in {"temperature", "humidity", "ldr_percent", "ldr_raw",
                    "estado", "comfort", "last_update"} :
             data_buffer'[k] = None
      ]_vars

\* C16 witness: a timeout check has just saved a reading with a temperature
\* and a comfort level, and every field of the buffer is absent.
C16_Witness ==
    /\ last_op = CheckOp
    /\ Len(sensor_calls) = 1
    /\ sensor_calls[1].success
    /\ sensor_calls[1].args.temperature # None
    /\ sensor_calls[1].args.comfort_level # None
    /\ \A k \in DOMAIN data_buffer : data_buffer[k] = None

\* C17: a successful connection sets reconnect_count to 0 whatever it was; a
\* refused connection saves the fatal event only when it is at least the
\* max_reconnects-th since the count was last 0, and the first refusal after a
\* success counts as the first.
C17_SuccessResetsFailures ==
    [][/\ (last_op' = AcceptedOp /\ on_connect(0)) => reconnect_count' = 0
       /\ \A rc \in ConnectCodes \ {0} :
            (last_op' = RefusedOp /\ on_connect(rc))
            => /\ FatalEvents(event_calls') # {}
                    => reconnect_count + 1 >= max_reconnects
               /\ session = "connecting" /\ reconnect_count = 0
                    => /\ reconnect_count' = 1
                       /\ event_calls' = <<>>
      ]_vars

\* C17 witness: a connection has been refused after the session had been up
\* (the buffer holds what arrived then): it counts as the first failure and
\* saves no event.
C17_Witness ==
    /\ last_op = RefusedOp
    /\ reconnect_count = 1
    /\ event_calls = <<>>
    /\ data_buffer.estado # None
    /\ reading_counter > 0

\* C19 (as claimed): a backoff wait that is pending (the time.sleep of
\* on_connect or on_disconnect has not ended) does not hold the network
\* thread, the one thread that delivers messages to on_message.
C19_BackoffLeavesThreadFree ==
    net_wake # None => net_pc = "idle"

\* C18: the payload "N/A" on the temperature or the humidity feed makes that
\* field absent, whatever it held, and changes no other field; the payload
\* "N/A" on the ldr_percent or the ldr_raw feed changes nothing, so the field
\* keeps the value it held.
C18_NotAvailableOnlyForClimate ==
    [][/\ \A feed_name \in {FEEDS.temperature, FEEDS.humidity} :
            (last_op' = Op("on_message", feed_name) /\ on_message(feed_name, "N/A"))
            => /\ data_buffer' = [data_buffer EXCEPT ![FieldOf(feed_name)] = None]
               /\ sensor_calls' = <<>>
       /\ \A feed_name \in {FEEDS.ldr_percent, FEEDS.ldr_raw} :
            (last_op' = Op("on_message", feed_name) /\ on_message(feed_name, "N/A"))
            => /\ data_buffer' = data_buffer
               /\ sensor_calls' = <<>>
      ]_vars

\* C18 witness: a temperature message has just left the temperature absent
\* while ldr_percent and ldr_raw hold values, and from here an "N/A" humidity
\* message removes the buffered humidity while an "N/A" ldr_raw message
\* leaves the buffered ldr_raw in place.
C18_Witness ==
    /\ last_op = Op("on_message", FEEDS.temperature)
    /\ data_buffer.temperature = None
    /\ data_buffer.humidity # None
    /\ data_buffer.ldr_percent # None
    /\ data_buffer.ldr_raw # None
    /\ ENABLED ( /\ on_message(FEEDS.humidity, "N/A")
                 /\ data_buffer'.humidity = None )
    /\ ENABLED ( /\ on_message(FEEDS.ldr_raw, "N/A")
                 /\ data_buffer'.ldr_raw = data_buffer.ldr_raw )

\* the argument of save_sensor_reading that carries a buffer key
ArgOf(k) == IF k = "comfort" THEN "comfort_level" ELSE k

\* the buffer keys that on_message fills from a payload
PayloadKeys ==
    {"temperature", "humidity", "ldr_percent", "ldr_raw", "estado", "comfort"}

\* C21 (as claimed): no value is erased without having been emitted. When a
\* thread resets the buffer after its save_sensor_reading call, every value
\* the buffer holds at that moment is in the reading that call was given.
C21_NoLostUpdate ==
    [][/\ (main_pc = "saved" /\ main_clear)
          => \A k \in PayloadKeys :
                data_buffer[k] # None
                => main_args.args[ArgOf(k)] = data_buffer[k]
       /\ (net_pc = "saved" /\ net_clear /\ net_args.success)
          => \A k \in PayloadKeys :
                data_buffer[k] # None
                => net_args.args[ArgOf(k)] = data_buffer[k]
      ]_vars

\* C22: with the handlers run one at a time, a buffer whose last_update is set
\* holds an estado; so the reading a timeout check saves carries an estado,
\* and a timeout check saves nothing while no state message has arrived since
\* the last reset.
C22_StampImpliesEstado ==
    /\ data_buffer.last_update # None => data_buffer.estado # None
    /\ (last_op = CheckOp /\ sensor_calls # <<>>)
          => sensor_calls[1].args.estado # None
    /\ (last_op = CheckOp /\ data_buffer.estado = None
          /\ data_buffer # EmptyBuffer)
          => sensor_calls = <<>>

\* C22 witness: more than BUFFER_TIMEOUT after the start, a timeout check has
\* just run on a buffer that holds ldr_percent and ldr_raw but no estado, and
\* saved nothing.
C22_Witness ==
    /\ last_op = CheckOp
    /\ now > BUFFER_TIMEOUT
    /\ data_buffer.ldr_percent # None
    /\ data_buffer.ldr_raw # None
    /\ data_buffer.estado = None
    /\ data_buffer.last_update = None
    /\ sensor_calls = <<>>

====
